---------------------------- MODULE Spec2Model ----------------------------
(***************************************************************************)
(* Model of enigma_cli.py: the command line front end of the enigma        *)
(* simulator.  A string is a sequence of one-character strings.  The       *)
(* external machine.Enigma object is represented by the calls made on it.  *)
(***************************************************************************)
EXTENDS Integers, Sequences, FiniteSets, TLC

VARIABLES pc, args, enigma, calls, stdin_data, idx, input_buffer, result,
          stdout, stderr, status, sigint, ret

vars == <<pc, args, enigma, calls, stdin_data, idx, input_buffer, result,
          stdout, stderr, status, sigint, ret>>

-----------------------------------------------------------------------------
(* Characters and the str methods the program uses (Python 2 byte strings). *)

UpperLetters == <<"A","B","C","D","E","F","G","H","I","J","K","L","M",
                  "N","O","P","Q","R","S","T","U","V","W","X","Y","Z">>

LowerLetters == <<"a","b","c","d","e","f","g","h","i","j","k","l","m",
                  "n","o","p","q","r","s","t","u","v","w","x","y","z">>

DigitChars == <<"0","1","2","3","4","5","6","7","8","9">>

InSeq(seq, c) == \E i \in 1..Len(seq) : seq[i] = c

IndexOf(seq, c) == CHOOSE i \in 1..Len(seq) : seq[i] = c

\* Python's None: a value no string of characters is equal to.
None == <<"None">>

\* str.isalpha(): non-empty and every character a letter.
isalpha(s) ==
    /\ Len(s) > 0
    /\ \A i \in 1..Len(s) : InSeq(UpperLetters, s[i]) \/ InSeq(LowerLetters, s[i])

\* str.isdigit(): non-empty and every character a decimal digit.
isdigit(s) ==
    /\ Len(s) > 0
    /\ \A i \in 1..Len(s) : InSeq(DigitChars, s[i])

\* str.upper() on one character.
upper_char(c) ==
    IF InSeq(LowerLetters, c) THEN UpperLetters[IndexOf(LowerLetters, c)] ELSE c

upper_mut(s) == s

\* str.upper().
upper(s) == [i \in 1..Len(s) |-> upper_char(s[i])]

\* ord() of a character (ASCII).
ord(c) ==
    IF InSeq(UpperLetters, c) THEN 64 + IndexOf(UpperLetters, c)
    ELSE IF InSeq(LowerLetters, c) THEN 96 + IndexOf(LowerLetters, c)
    ELSE IF InSeq(DigitChars, c) THEN 47 + IndexOf(DigitChars, c)
    ELSE IF c = "\n" THEN 10
    ELSE 32

\* Python's a & b on non-negative integers.
RECURSIVE BitAnd(_, _)
BitAnd(a, b) ==
    IF a = 0 \/ b = 0 THEN 0
    ELSE (a % 2) * (b % 2) + 2 * BitAnd(a \div 2, b \div 2)

\* Python's a | b on non-negative integers.
RECURSIVE BitOr(_, _)
BitOr(a, b) ==
    IF a = 0 THEN b
    ELSE IF b = 0 THEN a
    ELSE (IF a % 2 = 1 \/ b % 2 = 1 THEN 1 ELSE 0)
         + 2 * BitOr(a \div 2, b \div 2)

\* Python's 1 << n.
ShiftOne(n) == 2 ^ n

\* str.endswith('\n').
EndsWithNewline(s) == Len(s) > 0 /\ s[Len(s)] = "\n"

\* s[:-1]
DropLast(s) == SubSeq(s, 1, Len(s) - 1)

\* dict.get(key): the value, or None when the key is missing.
DictGet(d, k) == IF k \in DOMAIN d THEN d[k] ELSE None

-----------------------------------------------------------------------------
(* Module constants and the validators.                                     *)

WHEELS_DICT_mut ==
    [c \in {"1", "2", "3", "4", "5"} |->
        CASE c = "1" -> <<"I">>
          [] c = "2" -> <<"I","I">>
          [] c = "3" -> <<"I","I","I">>
          [] c = "4" -> <<"I","V">>
          [] c = "5" -> <<"V">>]

WHEELS_DICT ==
    [c \in {"1", "2", "3", "5"} |->
        CASE c = "1" -> <<"I">>
          [] c = "2" -> <<"I","I">>
          [] c = "3" -> <<"I","I","I">>
          [] c = "5" -> <<"V">>]

\* The duplicate-letter loop of valid_plugboard, from character i on.
RECURSIVE plug_loop(_, _, _)
plug_loop(plug_info, i, bit_map) ==
    IF i > Len(plug_info) THEN TRUE
    ELSE LET bit_offset == ord(upper_char(plug_info[i])) - ord("A")
         IN  IF BitAnd(bit_map, ShiftOne(bit_offset)) # 0 THEN FALSE
             ELSE plug_loop(plug_info, i + 1,
                            BitOr(bit_map, ShiftOne(bit_offset)))

valid_plugboard_mut(plug_info) ==
    LET length == Len(plug_info)
    IN  IF ~isalpha(plug_info) \/ ~(2 <= length /\ length <= 12)
        THEN FALSE
        ELSE plug_loop(plug_info, 1, 0)

valid_plugboard(plug_info) ==
    LET length == Len(plug_info)
    IN  IF ~isalpha(plug_info) \/ ~(2 <= length /\ length <= 12)
           \/ length % 2 = 1
        THEN FALSE
        ELSE plug_loop(plug_info, 1, 0)

valid_wheel_info(wheel_info) ==
    IF Len(wheel_info) # 3 THEN FALSE
    ELSE IF ~isdigit(wheel_info) THEN FALSE
    ELSE \A i \in 1..Len(wheel_info) : DictGet(WHEELS_DICT, wheel_info[i]) # None

\* The -m test of main: len(args.m) != 3 or not args.m.isalpha().
invalid_message_key(m) == Len(m) # 3 \/ ~isalpha(m)

-----------------------------------------------------------------------------
(* Texts written by the program; each is one token of an output stream.     *)

MsgM == "Invalid -m parameter, expected three letters."
MsgW == "Invalid -w parameter, expected a three digit number. Valid digits are\n1, 2, 3, and 5."
MsgS == "Invalid -s parameter, expected single string with an even number of\nletters with no duplicates, maximum letter count is 12."
MsgInterrupt == "Ctrl-c detected, terminating program."
PromptText == "Enter your text and press <Enter>: "
Traceback == "Traceback (most recent call last):"

\* print(x) for a message: the message and a newline.
PrintLine(out, msg) == out \o <<msg, "\n">>

\* print(s) for a string of characters.
PrintString(out, s) == out \o s \o <<"\n">>

-----------------------------------------------------------------------------
(* Inputs of a run: the parsed command line, the text typed at the prompt,  *)
(* the content of standard input and the value the engine returns.          *)

MaxStdinLen == 3

\* All strings of at most n characters drawn from chars.
StringsUpTo(chars, n) == UNION {[1..k -> chars] : k \in 0..n}

\* Values of -m (default AAA).
MKeys ==
    { <<"A","A","A">>, <<"x","y","Z">>, <<"A","B">>, <<"A","1","C">>,
      <<"A","B","C","D">>, <<>> }

\* Values of -w (default 123).
WOrders ==
    { <<"1","2","3">>, <<"3","1","2">>, <<"1","1","5">>, <<"1","2","4">>,
      <<"1","2">>, <<"1","a","3">> }

\* Values of -s (default None: the option was not given).
Plugs ==
    { None, <<"A","Z">>, <<"a","z","Y","B">>, <<"E","D","C","T","A","B">>,
      SubSeq(UpperLetters, 1, 8), SubSeq(LowerLetters, 1, 10),
      SubSeq(UpperLetters, 1, 12), SubSeq(UpperLetters, 1, 14),
      <<"A">>, <<"A","Z","A","B">>, <<"A","z","a","B">>, <<"A","Z","1","B">> }

\* What sys.stdin.read() can return.
StdinContents == StringsUpTo({"H", "\n"}, MaxStdinLen)

\* What raw_input() can return: one line, without its terminator.
PromptLines == { <<>>, <<"H">>, <<"H","I">> }

\* What the engine's encipher() can return.
EngineResults == { <<"Q">>, <<"X","Y">> }

-----------------------------------------------------------------------------
(* The run of the script.                                                   *)

\* The process starts; argparse has produced args (lines 123-144).
Init ==
    /\ pc = "imports"
    /\ args \in [m : MKeys, w : WOrders, s : Plugs, p : BOOLEAN]
    /\ enigma = [constructed |-> FALSE, key |-> <<>>, rotor_order |-> <<>>,
                 plugs_set |-> FALSE, plugs |-> <<>>]
    /\ calls = <<>>
    /\ stdin_data = <<>>
    /\ idx = 1
    /\ input_buffer = <<>>
    /\ result = <<>>
    /\ stdout = <<>>
    /\ stderr = <<>>
    /\ status = -1          \* the process has not exited
    /\ sigint = "none"     \* no KeyboardInterrupt has been raised
    /\ ret = None

\* sys.exit(code) and normal termination.
Exit(code) == pc' = "exited" /\ status' = code

\* Lines 11-15 and 162-164: the imports, then main() is entered.
Imports ==
    /\ pc = "imports"
    /\ pc' = "check_m"
    /\ UNCHANGED <<args, enigma, calls, stdin_data, idx, input_buffer, result,
                   stdout, stderr, status, sigint, ret>>

CheckM_mut ==
    /\ pc = "check_m"
    /\ IF invalid_message_key(args.m)
       THEN /\ stdout' = PrintLine(stdout, MsgM)
            /\ pc' = "check_w"
            /\ UNCHANGED status
       ELSE /\ pc' = "check_w"
            /\ UNCHANGED <<stdout, status>>
    /\ UNCHANGED <<args, enigma, calls, stdin_data, idx, input_buffer, result,
                   stderr, sigint, ret>>

\* Lines 147-149.
CheckM ==
    /\ pc = "check_m"
    /\ IF invalid_message_key(args.m)
       THEN /\ stdout' = PrintLine(stdout, MsgM)
            /\ Exit(1)
       ELSE /\ pc' = "check_w"
            /\ UNCHANGED <<stdout, status>>
    /\ UNCHANGED <<args, enigma, calls, stdin_data, idx, input_buffer, result,
                   stderr, sigint, ret>>

CheckW_mut ==
    /\ pc = "check_w"
    /\ pc' = "check_s"
    /\ UNCHANGED <<args, enigma, calls, stdin_data, idx, input_buffer, result,
                   stdout, stderr, status, sigint, ret>>

\* Lines 150-153.
CheckW ==
    /\ pc = "check_w"
    /\ IF ~valid_wheel_info(args.w)
       THEN /\ stdout' = PrintLine(stdout, MsgW)
            /\ Exit(1)
       ELSE /\ pc' = "check_s"
            /\ UNCHANGED <<stdout, status>>
    /\ UNCHANGED <<args, enigma, calls, stdin_data, idx, input_buffer, result,
                   stderr, sigint, ret>>

\* Lines 154-159: the -s test, then process_request is called.
CheckS ==
    /\ pc = "check_s"
    /\ IF args.s # None /\ ~valid_plugboard(args.s)
       THEN /\ stdout' = PrintLine(stdout, MsgS)
            /\ Exit(1)
       ELSE /\ pc' = "construct"
            /\ UNCHANGED <<stdout, status>>
    /\ UNCHANGED <<args, enigma, calls, stdin_data, idx, input_buffer, result,
                   stderr, sigint, ret>>

\* Line 53: order = [WHEELS_DICT.get(rotor) for rotor in args.w]
RotorOrder(w) == [i \in 1..Len(w) |-> DictGet(WHEELS_DICT, w[i])]

\* Lines 53-54: the engine is constructed.
Construct ==
    /\ pc = "construct"
    /\ LET order == RotorOrder(args.w)
           key == upper(args.m)
       IN  /\ enigma' = [enigma EXCEPT !.constructed = TRUE, !.key = key,
                                      !.rotor_order = order]
           /\ calls' = Append(calls, <<"Enigma", key, order>>)
    /\ pc' = "plugs"
    /\ UNCHANGED <<args, stdin_data, idx, input_buffer, result, stdout, stderr,
                   status, sigint, ret>>

Swaps_mut(s) ==
    [j \in 1..(Len(s) \div 2) |-> upper(SubSeq(s, 2 * j - 1, 2 * j))]

\* Line 59: swaps = [args.s[i:i + 2] for i in range(0, len(args.s), 2)]
Swaps(s) ==
    [j \in 1..((Len(s) + 1) \div 2) |->
        SubSeq(s, 2 * j - 1, IF 2 * j <= Len(s) THEN 2 * j ELSE Len(s))]

SetPlugs_mut ==
    /\ pc = "plugs"
    /\ LET swaps == IF args.s # None THEN Swaps(args.s) ELSE <<>>
       IN  /\ enigma' = [enigma EXCEPT !.plugs_set = TRUE, !.plugs = swaps]
           /\ calls' = Append(calls, <<"set_plugs", swaps>>)
    /\ pc' = "acquire"
    /\ UNCHANGED <<args, stdin_data, idx, input_buffer, result, stdout, stderr,
                   status, sigint, ret>>

\* Lines 56-60.
SetPlugs ==
    /\ pc = "plugs"
    /\ IF args.s # None
       THEN LET swaps == Swaps(args.s)
            IN  /\ enigma' = [enigma EXCEPT !.plugs_set = TRUE, !.plugs = swaps]
                /\ calls' = Append(calls, <<"set_plugs", swaps>>)
       ELSE UNCHANGED <<enigma, calls>>
    /\ pc' = "acquire"
    /\ UNCHANGED <<args, stdin_data, idx, input_buffer, result, stdout, stderr,
                   status, sigint, ret>>

\* Lines 63-64: raw_input writes the prompt and returns the line typed.  The
\* prompt goes to standard output, or to standard error when the terminal is
\* read without the readline module.
Prompt ==
    /\ pc = "acquire"
    /\ args.p
    /\ \E line \in PromptLines :
          /\ input_buffer' = line
          /\ calls' = Append(calls, <<"raw_input", line>>)
    /\ \/ stdout' = Append(stdout, PromptText) /\ UNCHANGED stderr
       \/ stderr' = Append(stderr, PromptText) /\ UNCHANGED stdout
    /\ pc' = "encipher"
    /\ UNCHANGED <<args, enigma, stdin_data, idx, result, status, sigint,
                   ret>>

\* Line 64: raw_input meets end of input; EOFError is not caught.
PromptEOF ==
    /\ pc = "acquire"
    /\ args.p
    /\ \/ stdout' = Append(stdout, PromptText) /\ stderr' = Append(stderr, Traceback)
       \/ stderr' = stderr \o <<PromptText, Traceback>> /\ UNCHANGED stdout
    /\ Exit(1)
    /\ UNCHANGED <<args, enigma, calls, stdin_data, idx, input_buffer, result,
                   sigint, ret>>

\* Lines 66-67: sys.stdin.read() returns the whole stream.
StdinRead ==
    /\ pc = "acquire"
    /\ ~args.p
    /\ \E data \in StdinContents : stdin_data' = data
    /\ input_buffer' = <<>>
    /\ idx' = 1
    /\ calls' = Append(calls, <<"stdin.read", stdin_data'>>)
    /\ pc' = "loop"
    /\ UNCHANGED <<args, enigma, result, stdout, stderr, status, sigint,
                   ret>>

\* Lines 68-70: the body of the for loop.
LoopBody(buffer, line) ==
    LET appended == buffer \o <<line>>
    IN  IF EndsWithNewline(appended) THEN DropLast(appended) ELSE appended

\* Lines 67-70: one iteration over the characters read, or the loop's end.
LoopStep ==
    /\ pc = "loop"
    /\ IF idx <= Len(stdin_data)
       THEN /\ input_buffer' = LoopBody(input_buffer, stdin_data[idx])
            /\ idx' = idx + 1
            /\ UNCHANGED pc
       ELSE /\ pc' = "encipher"
            /\ UNCHANGED <<input_buffer, idx>>
    /\ UNCHANGED <<args, enigma, calls, stdin_data, result, stdout, stderr,
                   status, sigint, ret>>

\* Line 72: enigma.encipher(input_buffer) returns.
Encipher ==
    /\ pc = "encipher"
    /\ \E r \in EngineResults : result' = r
    /\ calls' = Append(calls, <<"encipher", input_buffer>>)
    /\ pc' = "print"
    /\ UNCHANGED <<args, enigma, stdin_data, idx, input_buffer, stdout, stderr,
                   status, sigint, ret>>

PrintResult_mut ==
    /\ pc = "print"
    /\ stdout' = stdout \o result
    /\ calls' = Append(calls, <<"print", result>>)
    /\ pc' = "return"
    /\ UNCHANGED <<args, enigma, stdin_data, idx, input_buffer, result, stderr,
                   status, sigint, ret>>

\* Line 72: print(...) of the value returned.
PrintResult ==
    /\ pc = "print"
    /\ stdout' = PrintString(stdout, result)
    /\ calls' = Append(calls, <<"print", result>>)
    /\ pc' = "return"
    /\ UNCHANGED <<args, enigma, stdin_data, idx, input_buffer, result, stderr,
                   status, sigint, ret>>

\* process_request and main return; the script ends with status 0.
Return ==
    /\ pc = "return"
    /\ Exit(0)
    /\ UNCHANGED <<args, enigma, calls, stdin_data, idx, input_buffer, result,
                   stdout, stderr, sigint, ret>>

\* KeyboardInterrupt is raised at the current point of the run: inside the
\* try of line 163 control goes to the except clause; during the imports
\* (lines 11-15) nothing catches it.
Interrupt ==
    /\ sigint = "none"
    /\ pc \notin {"exited", "except", "valid_plugboard", "valid_wheel_info",
                  "returned"}
    /\ sigint' = pc
    /\ IF pc = "imports"
       THEN /\ stderr' = Append(stderr, Traceback)
            /\ Exit(1)
       ELSE /\ pc' = "except"
            /\ UNCHANGED <<stderr, status>>
    /\ UNCHANGED <<args, enigma, calls, stdin_data, idx, input_buffer, result,
                   stdout, ret>>

Handler_mut ==
    /\ pc = "except"
    /\ Exit(1)
    /\ UNCHANGED <<args, enigma, calls, stdin_data, idx, input_buffer, result,
                   stdout, stderr, sigint, ret>>

\* Lines 165-167.
Handler ==
    /\ pc = "except"
    /\ stdout' = PrintLine(stdout, MsgInterrupt)
    /\ Exit(1)
    /\ UNCHANGED <<args, enigma, calls, stdin_data, idx, input_buffer, result,
                   stderr, sigint, ret>>

\* A run that no signal interrupts.
Next ==
    \/ Imports \/ CheckM \/ CheckW \/ CheckS
    \/ Construct \/ SetPlugs
    \/ Prompt \/ PromptEOF \/ StdinRead \/ LoopStep
    \/ Encipher \/ PrintResult \/ Return

Spec == Init /\ [][Next]_vars

\* A run in which Ctrl-c may arrive once, at any point.
NextInterrupt == Next \/ Interrupt \/ Handler

SpecInterrupt == Init /\ [][NextInterrupt]_vars

-----------------------------------------------------------------------------
(* The validators called on their own, on wider sets of arguments.          *)

MaxWheelLen == 4
MaxPlugShort == 4
MaxPlugLong == 14

\* Arguments of valid_wheel_info.
WheelInputs == StringsUpTo({"0", "1", "2", "3", "4", "5", "a"}, MaxWheelLen)

\* n distinct letters in mixed case, the i-th one replaced by c.
LongPlug(n, i, c) ==
    [k \in 1..n |->
        IF k = i THEN c
        ELSE IF k % 3 = 0 THEN LowerLetters[k] ELSE UpperLetters[k]]

\* Arguments of valid_plugboard: every short string over a few characters,
\* and long strings of distinct letters with one character replaced.
PlugInputs ==
    StringsUpTo({"A", "a", "B", "z", "1"}, MaxPlugShort)
    \cup { LongPlug(n, i, c) : n \in 1..MaxPlugLong, i \in 1..MaxPlugLong,
                               c \in {"A", "b", "Z", "z", "-"} }

InitFunction(label) ==
    /\ pc = label
    /\ enigma = [constructed |-> FALSE, key |-> <<>>, rotor_order |-> <<>>,
                 plugs_set |-> FALSE, plugs |-> <<>>]
    /\ calls = <<>>
    /\ stdin_data = <<>>
    /\ idx = 1
    /\ input_buffer = <<>>
    /\ result = <<>>
    /\ stdout = <<>>
    /\ stderr = <<>>
    /\ status = -1
    /\ sigint = "none"
    /\ ret = None

InitPlugboard ==
    /\ args \in [m : {<<"A","A","A">>}, w : {<<"1","2","3">>}, s : PlugInputs,
                 p : {FALSE}]
    /\ InitFunction("valid_plugboard")

\* Lines 75-96: valid_plugboard(args.s) is called and returns.
CallValidPlugboard ==
    /\ pc = "valid_plugboard"
    /\ ret' = valid_plugboard(args.s)
    /\ pc' = "returned"
    /\ UNCHANGED <<args, enigma, calls, stdin_data, idx, input_buffer, result,
                   stdout, stderr, status, sigint>>

SpecPlugboard == InitPlugboard /\ [][CallValidPlugboard]_vars

InitWheel ==
    /\ args \in [m : {<<"A","A","A">>}, w : WheelInputs, s : {None}, p : {FALSE}]
    /\ InitFunction("valid_wheel_info")

\* Lines 99-115: valid_wheel_info(args.w) is called and returns.
CallValidWheelInfo ==
    /\ pc = "valid_wheel_info"
    /\ ret' = valid_wheel_info(args.w)
    /\ pc' = "returned"
    /\ UNCHANGED <<args, enigma, calls, stdin_data, idx, input_buffer, result,
                   stdout, stderr, status, sigint>>

SpecWheel == InitWheel /\ [][CallValidWheelInfo]_vars

-----------------------------------------------------------------------------
(* What the documentation requires of each parameter, stated without the    *)
(* program's own helpers.                                                   *)

LetterSet == {UpperLetters[k] : k \in 1..26} \cup {LowerLetters[k] : k \in 1..26}

\* The position in the alphabet of a letter, whatever its case.
LetterNumber(c) == CHOOSE k \in 1..26 : UpperLetters[k] = c \/ LowerLetters[k] = c

KeyRule(m) == Len(m) = 3 /\ \A i \in 1..3 : m[i] \in LetterSet

WheelRule(w) == Len(w) = 3 /\ \A i \in 1..3 : w[i] \in {"1", "2", "3", "5"}

PlugRule(s) ==
    /\ Len(s) > 0
    /\ \A i \in 1..Len(s) : s[i] \in LetterSet
    /\ 2 <= Len(s) /\ Len(s) <= 12
    /\ Len(s) % 2 = 0
    /\ \A i, j \in 1..Len(s) : i < j => LetterNumber(s[i]) # LetterNumber(s[j])

Malformed ==
    \/ ~KeyRule(args.m)
    \/ ~WheelRule(args.w)
    \/ args.s # None /\ ~PlugRule(args.s)

\* The names of the calls made so far, in order.
Ops == [i \in 1..Len(calls) |-> calls[i][1]]

Count(op) == Cardinality({i \in 1..Len(calls) : calls[i][1] = op})

Diagnostics == {MsgM, MsgW, MsgS}

DiagnosticCount == Cardinality({i \in 1..Len(stdout) : stdout[i] \in Diagnostics})

IsPrefix(s, t) == Len(s) <= Len(t) /\ SubSeq(t, 1, Len(s)) = s

-----------------------------------------------------------------------------
(* The claims.                                                              *)

\* C1: when stream-mode acquisition is complete, the acquired text is the
\* content of standard input with exactly one final line terminator removed
\* if it ends with one, and that content unchanged otherwise.
C1_StreamStripsOnlyFinalTerminator ==
    (pc = "encipher" /\ ~args.p) =>
        input_buffer = (IF EndsWithNewline(stdin_data)
                        THEN DropLast(stdin_data) ELSE stdin_data)

\* C2: in a run whose -m, -w or supplied -s value is malformed, control never
\* goes past the validation, the engine is never constructed, the plugboard
\* never configured, no input acquired and encipher never called; when the
\* process has exited its status is 1 and its output is the diagnostic of a
\* malformed parameter.
C2_MalformedHaltsBeforeEngine ==
    Malformed =>
        /\ pc \in {"imports", "check_m", "check_w", "check_s", "exited"}
        /\ ~enigma.constructed /\ ~enigma.plugs_set
        /\ calls = <<>>
        /\ stdin_data = <<>> /\ input_buffer = <<>> /\ result = <<>>
        /\ pc = "exited" =>
              /\ status = 1
              /\ \/ ~KeyRule(args.m) /\ stdout = <<MsgM, "\n">>
                 \/ ~WheelRule(args.w) /\ stdout = <<MsgW, "\n">>
                 \/ args.s # None /\ ~PlugRule(args.s) /\ stdout = <<MsgS, "\n">>

C2_Witness ==
    /\ pc = "exited" /\ status = 1
    /\ KeyRule(args.m) /\ WheelRule(args.w)
    /\ args.s # None /\ ~PlugRule(args.s)
    /\ stdout = <<MsgS, "\n">>

\* C3: the parameters are validated in the order -m, -w, -s: the -w test is
\* reached only with a valid -m, the -s test only with valid -m and -w, the
\* engine only with all three valid; a run prints at most one diagnostic, and
\* a run that exited on a malformed parameter printed exactly the diagnostic
\* of the first malformed one in that order.
C3_FirstFailureOnly ==
    /\ DiagnosticCount <= 1
    /\ pc = "check_w" => KeyRule(args.m)
    /\ pc = "check_s" => KeyRule(args.m) /\ WheelRule(args.w)
    /\ pc \notin {"imports", "check_m", "check_w", "check_s", "exited"} => ~Malformed
    /\ (pc = "exited" /\ Malformed) =>
          stdout = << (IF ~KeyRule(args.m) THEN MsgM
                       ELSE IF ~WheelRule(args.w) THEN MsgW ELSE MsgS), "\n" >>
    /\ ~Malformed => DiagnosticCount = 0

C3_Witness ==
    /\ pc = "exited"
    /\ ~KeyRule(args.m) /\ ~WheelRule(args.w)
    /\ args.s # None /\ ~PlugRule(args.s)
    /\ stdout = <<MsgM, "\n">>

\* The calls of a complete run, in order.
ExpectedOps ==
    <<"Enigma">>
    \o (IF args.s # None THEN <<"set_plugs">> ELSE <<>>)
    \o <<(IF args.p THEN "raw_input" ELSE "stdin.read"), "encipher", "print">>

\* C4: at every point of every run the calls made so far are an initial part
\* of: construct the engine, configure the plugboard (if and only if -s was
\* given), acquire the input, encipher, print; the engine is constructed at
\* most once and encipher called at most once; a run that exits with status
\* 0 has made all of them, the engine built from the key and rotor order and
\* encipher called on the acquired text.
C4_OneEngineOneEncipherInOrder ==
    /\ IsPrefix(Ops, ExpectedOps)
    /\ Count("Enigma") <= 1
    /\ Count("encipher") <= 1
    /\ status = 0 =>
          /\ Ops = ExpectedOps
          /\ calls[1] = <<"Enigma", enigma.key, enigma.rotor_order>>
          /\ calls[Len(calls) - 1] = <<"encipher", input_buffer>>
          /\ calls[Len(calls)] = <<"print", result>>

C4_Witness ==
    /\ status = 0
    /\ args.s # None
    /\ Ops = <<"Enigma", "set_plugs", "stdin.read", "encipher", "print">>

\* C5: valid_plugboard(s) returns a boolean, and returns true exactly when s
\* is non-empty and purely alphabetic, has an even length from 2 to 12, and
\* holds no letter twice when case is ignored.
C5_ValidPlugboard ==
    pc = "returned" => ret \in BOOLEAN /\ (ret <=> PlugRule(args.s))

C5_Witness ==
    /\ pc = "returned"
    /\ args.s = <<"a", "z", "A", "B">>
    /\ ret = FALSE

\* C6: valid_wheel_info(s) returns true exactly when s has three characters,
\* each one of the digits 1, 2, 3, 5 (repeats allowed).
C6_ValidWheelInfo ==
    pc = "returned" => ret \in BOOLEAN /\ (ret <=> WheelRule(args.w))

C6_Witness ==
    /\ pc = "returned"
    /\ args.w = <<"5", "5", "5">>
    /\ ret = TRUE

\* The elements of a list of strings joined in order.
RECURSIVE Concat(_)
Concat(list) ==
    IF list = <<>> THEN <<>> ELSE Head(list) \o Concat(Tail(list))

\* C7: the list handed to set_plugs for a -s string of length 2k has exactly
\* k elements, element j is the two characters s[2j], s[2j+1] (counting from
\* 0), and the elements joined in order are s, character for character.
C7_SwapsAreConsecutivePairs ==
    \A n \in 1..Len(calls) :
        calls[n][1] = "set_plugs" =>
            LET swaps == calls[n][2]
                s == args.s
            IN  /\ PlugRule(s)
                /\ 2 * Len(swaps) = Len(s)
                /\ Len(swaps) >= 1 /\ Len(swaps) <= 6
                /\ \A j \in 1..Len(swaps) :
                       swaps[j] = <<s[2 * j - 1], s[2 * j]>>
                /\ Concat(swaps) = s
                /\ enigma.plugs = swaps

C7_Witness ==
    /\ enigma.plugs_set
    /\ args.s = <<"a", "z", "Y", "B">>
    /\ enigma.plugs = << <<"a", "z">>, <<"Y", "B">> >>

\* The interrupt arrived before line 72 printed the result.
InterruptedBeforePrint ==
    sigint \in {"check_m", "check_w", "check_s", "construct", "plugs",
                "acquire", "loop", "encipher", "print"}

\* C8 as stated: a run in which an interrupt arrived ends with the interrupt
\* message printed, status 1, and no enciphered result printed.
C8_AnyInterruptCaughtNoResult ==
    (pc = "exited" /\ sigint # "none") =>
        /\ status = 1
        /\ Len(stdout) >= 2
        /\ SubSeq(stdout, Len(stdout) - 1, Len(stdout)) = <<MsgInterrupt, "\n">>
        /\ Count("print") = 0

\* C8 amended: an interrupt arriving while main() runs is caught: the run
\* ends with status 1 and the interrupt message as the last line of standard
\* output; when it arrived before line 72 printed, no result is printed
\* (standard output holds the message and at most the prompt before it).
\* An interrupt arriving at any point ends the run with status 1.
C8_InterruptInMainCaught ==
    /\ pc = "except" => sigint \notin {"none", "imports"}
    /\ (pc = "exited" /\ sigint # "none") =>
          /\ status = 1
          /\ sigint # "imports" =>
                /\ Len(stdout) >= 2
                /\ SubSeq(stdout, Len(stdout) - 1, Len(stdout))
                      = <<MsgInterrupt, "\n">>
          /\ InterruptedBeforePrint =>
                /\ Count("print") = 0
                /\ stdout \in { <<MsgInterrupt, "\n">>,
                                <<PromptText, MsgInterrupt, "\n">> }

C8_Witness ==
    /\ pc = "exited" /\ status = 1
    /\ sigint = "acquire"
    /\ stdout = <<MsgInterrupt, "\n">>

\* C9 as stated: in every run that exits with status 0 standard output is
\* exactly the string encipher returned and one newline.
C9_StdoutIsResultLine ==
    status = 0 => stdout = result \o <<"\n">>

\* C9 amended: in a run that exits with status 0, standard output is the
\* string encipher returned and one newline in stream mode; in prompt mode it
\* is that line, preceded by the prompt text when raw_input wrote the prompt
\* to standard output.
C9_StdoutIsResultLineAfterPrompt ==
    status = 0 =>
        /\ calls[Len(calls)] = <<"print", result>>
        /\ calls[Len(calls) - 1][1] = "encipher"
        /\ ~args.p => stdout = result \o <<"\n">>
        /\ args.p => stdout \in { result \o <<"\n">>,
                                  <<PromptText>> \o result \o <<"\n">> }

C9_Witness ==
    /\ status = 0
    /\ args.p
    /\ stdout = <<PromptText>> \o result \o <<"\n">>

\* The engine's name of the rotor a digit of -w selects.
RotorName(d) ==
    CASE d = "1" -> <<"I">>
      [] d = "2" -> <<"I", "I">>
      [] d = "3" -> <<"I", "I", "I">>
      [] d = "5" -> <<"V">>
      [] OTHER -> None

\* C10: whenever the engine has been constructed, its key is three uppercase
\* letters, the -m value uppercased, and its rotor order is three
\* identifiers, each one of I, II, III, V and the table entry of the
\* corresponding digit of -w; no missing identifier is passed.
C10_EngineArguments ==
    enigma.constructed =>
        /\ Len(enigma.key) = 3 /\ Len(args.m) = 3
        /\ \A i \in 1..3 :
              /\ enigma.key[i] \in {UpperLetters[k] : k \in 1..26}
              /\ enigma.key[i] = UpperLetters[LetterNumber(args.m[i])]
        /\ Len(enigma.rotor_order) = 3 /\ Len(args.w) = 3
        /\ \A i \in 1..3 :
              /\ enigma.rotor_order[i] \in
                    { <<"I">>, <<"I", "I">>, <<"I", "I", "I">>, <<"V">> }
              /\ enigma.rotor_order[i] = RotorName(args.w[i])
        /\ calls[1] = <<"Enigma", enigma.key, enigma.rotor_order>>

C10_Witness ==
    /\ enigma.constructed
    /\ args.m = <<"x", "y", "Z">>
    /\ args.w = <<"3", "1", "2">>
    /\ enigma.key = <<"X", "Y", "Z">>
    /\ enigma.rotor_order = << <<"I", "I", "I">>, <<"I">>, <<"I", "I">> >>

=============================================================================
